---- MODULE Spec2Model ----
(***************************************************************************)
(* A model of irk: the IRC message grammar (src/src/lib.rs) and the serde  *)
(* token encoder / decoder (src/src/proto/ser.rs, src/src/proto/de.rs).    *)
(*                                                                         *)
(* Text is a sequence of one-character strings, so that splitting,         *)
(* joining, formatting and parsing are computed character by character.    *)
(* An Option is a sequence of length 0 (None) or 1 (Some).                 *)
(***************************************************************************)
EXTENDS Integers, Sequences, FiniteSets, TLC

VARIABLES
    \* ---- message grammar (lib.rs) ----
    gkind,      \* "render": msg is rendered, then parsed; "wire": a wire line is parsed
    msg,        \* a Message: the one given, or the one to_message returns
    trailing,   \* wire: whether the last parameter is written with a leading colon
    line,       \* the line: Display's output, or the wire line
    parsed,     \* Message::try_from(line)
    gpc,        \* "render" | "parse" | "done" | "off"
    \* ---- encoder and decoder (proto/ser.rs, proto/de.rs) ----
    shape,      \* the type the caller encodes and decodes
    value,      \* the value encoded (<<>> when the tokens are given instead)
    given,      \* "value": value is encoded; "tokens": args are given by the caller
    path,       \* "tokens": to_message -> from_message; "line": through Display and try_from
    args,       \* Serializer.args
    cpc,        \* "serialize" | "to_message" | "render" | "parse" | "from_message"
                \* | "decode" | "done" | "off"
    head,       \* Deserializer.input.0
    params,     \* Deserializer.input.1, reversed as from_message leaves it
    fields,     \* Deserializer.fields
    stack,      \* the calls of the decoder in progress, innermost last
    ret,        \* the value the call that just returned gave back, if any
    err,        \* the error being propagated by `?`, if any
    taken,      \* history: the parts read_part has handed out, in order
    result      \* the outcome of the whole decode

gvars == <<gkind, msg, trailing, line, parsed, gpc>>

cvars == <<shape, value, given, path, args, cpc, head, params, fields, stack, ret, err,
           taken, result>>

vars == <<gkind, msg, trailing, line, parsed, gpc,
          shape, value, given, path, args, cpc, head, params, fields, stack, ret, err,
          taken, result>>

None == <<>>
Some(x) == <<x>>

----------------------------------------------------------------------------
(* str helpers of the standard library, as the code uses them *)

\* the first index of character c in s, 0 when there is none
IndexOf(s, c) ==
    IF \E i \in 1..Len(s) : s[i] = c
    THEN CHOOSE i \in 1..Len(s) : s[i] = c /\ \A j \in 1..(i - 1) : s[j] # c
    ELSE 0

\* str::split_once(c): None, or Some of the text before and after the first c
split_once(s, c) ==
    LET i == IndexOf(s, c)
    IN  IF i = 0 THEN None
        ELSE Some(<<SubSeq(s, 1, i - 1), SubSeq(s, i + 1, Len(s))>>)

RECURSIVE trim_start_matches(_, _)
trim_start_matches(s, c) ==
    IF s # <<>> /\ Head(s) = c THEN trim_start_matches(Tail(s), c) ELSE s

----------------------------------------------------------------------------
(* lib.rs: Message, Display, Lexer *)

Message(source, command, parameters) ==
    [source |-> source, command |-> command, parameters |-> parameters]

RECURSIVE WriteRest(_)
\* rest.iter().try_for_each(|v| write!(f, " {v}"))
WriteRest(rest) ==
    IF rest = <<>> THEN <<>> ELSE <<" ">> \o Head(rest) \o WriteRest(Tail(rest))

\* a renderer that writes the last parameter like the others, with no colon
DisplayPlainLast(m) ==
    (IF m.source # None THEN <<":">> \o m.source[1] \o <<" ">> ELSE <<>>)
        \o m.command \o WriteRest(m.parameters)

\* impl Display for Message
Display(m) ==
    (IF m.source # None THEN <<":">> \o m.source[1] \o <<" ">> ELSE <<>>)
        \o m.command
        \o (IF m.parameters # <<>>
            THEN WriteRest(SubSeq(m.parameters, 1, Len(m.parameters) - 1))
                    \o <<" ", ":">> \o m.parameters[Len(m.parameters)]
            ELSE <<>>)

\* Lexer::read_part: the part up to the first space, and the input left
Lexer_read_part(input) ==
    LET s == split_once(input, " ")
        part == IF s = None THEN input ELSE s[1][1]
        left == IF s = None THEN <<>> ELSE s[1][2]
    IN  [part |-> part, input |-> trim_start_matches(left, " ")]

RECURSIVE parse_loop_keep_colon(_, _)
\* a parameter loop that keeps the colon of the trailing parameter
parse_loop_keep_colon(input, parameters) ==
    IF input = <<>> THEN parameters
    ELSE IF Head(input) = ":" THEN Append(parameters, input)
    ELSE LET r == Lexer_read_part(input)
         IN  parse_loop_keep_colon(r.input, Append(parameters, r.part))

RECURSIVE parse_loop(_, _)
\* the loop of Lexer::parse (lib.rs 90-96)
parse_loop(input, parameters) ==
    IF input = <<>> THEN parameters
    ELSE IF Head(input) = ":" THEN Append(parameters, Tail(input))
    ELSE LET r == Lexer_read_part(input)
         IN  parse_loop(r.input, Append(parameters, r.part))

\* Lexer::parse
Lexer_parse(input) ==
    LET hasSource == input # <<>> /\ Head(input) = ":"
        r0 == IF hasSource THEN Lexer_read_part(Tail(input))
              ELSE [part |-> <<>>, input |-> input]
        r1 == Lexer_read_part(r0.input)
    IN  Message(IF hasSource THEN Some(r0.part) ELSE None,
                r1.part,
                parse_loop(r1.input, <<>>))

\* impl TryFrom<&str> for Message
try_from(text) == Lexer_parse(text)

----------------------------------------------------------------------------
(* the grammar's inputs *)

MaxParams == 2

\* texts of every class the grammar tells apart: empty, plain, with a leading
\* colon, a lone colon, with an inner space
GText == { <<>>, <<"a">>, <<"b">>, <<":", "a">>, <<":">>, <<"a", " ", "b">> }

RECURSIVE ListsOf(_, _)
\* the sequences over S of length at most n
ListsOf(S, n) ==
    IF n = 0 THEN { <<>> }
    ELSE LET shorter == ListsOf(S, n - 1)
         IN  shorter \cup { Append(l, x) : l \in { k \in shorter : Len(k) = n - 1 }, x \in S }

GMessages ==
    { Message(s, c, p) :
        s \in { None } \cup { Some(t) : t \in GText },
        c \in GText,
        p \in ListsOf(GText, MaxParams) }

\* a line  [':' S ' '] C (' ' p_i)* [' :' T]  built from the components m; with
\* colonLast the last parameter is T, written after " :"
WireLine(m, colonLast) ==
    IF colonLast THEN
        (IF m.source # None THEN <<":">> \o m.source[1] \o <<" ">> ELSE <<>>)
            \o m.command
            \o WriteRest(SubSeq(m.parameters, 1, Len(m.parameters) - 1))
            \o <<" ", ":">> \o m.parameters[Len(m.parameters)]
    ELSE
        (IF m.source # None THEN <<":">> \o m.source[1] \o <<" ">> ELSE <<>>)
            \o m.command
            \o WriteRest(m.parameters)

NoMessage == Message(None, <<>>, <<>>)

\* the encoder and decoder take no part in the grammar's runs
CodecOff ==
    /\ shape = [k |-> "unit"] /\ value = <<>> /\ given = "value" /\ path = "tokens"
    /\ args = <<>> /\ cpc = "off" /\ head = <<>> /\ params = <<>> /\ fields = 0
    /\ stack = <<>> /\ ret = <<>> /\ err = <<>> /\ taken = <<>>
    /\ result = [ok |-> FALSE, v |-> <<>>, err |-> "none"]

InitGrammar ==
    /\ gkind \in { "render", "wire" }
    /\ msg \in GMessages
    /\ trailing \in BOOLEAN
    /\ gkind = "render" => trailing
    /\ (gkind = "wire" /\ trailing) => msg.parameters # <<>>
    /\ line = IF gkind = "wire" THEN WireLine(msg, trailing) ELSE <<>>
    /\ parsed = NoMessage
    /\ gpc = IF gkind = "wire" THEN "parse" ELSE "render"
    /\ CodecOff

\* msg.to_string()
Render ==
    /\ gpc = "render"
    /\ line' = Display(msg)
    /\ gpc' = "parse"
    /\ UNCHANGED <<gkind, msg, trailing, parsed>>
    /\ UNCHANGED cvars

\* Message::try_from(line)
Parse ==
    /\ gpc = "parse"
    /\ parsed' = try_from(line)
    /\ gpc' = "done"
    /\ UNCHANGED <<gkind, msg, trailing, line>>
    /\ UNCHANGED cvars

NextGrammar == Render \/ Parse

SpecGrammar == InitGrammar /\ [][NextGrammar]_vars

----------------------------------------------------------------------------
(* claims about the grammar *)

HasNoSpace(t) == \A i \in 1..Len(t) : t[i] # " "
IsPlain(t) == t # <<>> /\ HasNoSpace(t) /\ Head(t) # ":"
NonLast(m) == { m.parameters[i] : i \in 1..(Len(m.parameters) - 1) }

\* the precondition of C1 as the claim states it
C1_Pre(m) ==
    /\ m.source # None => HasNoSpace(m.source[1])
    /\ HasNoSpace(m.command)
    /\ \A p \in NonLast(m) : HasNoSpace(p)

\* C1 as stated: for every Message whose source, command and non-last
\* parameters contain no space, parsing the rendered line returns the Message.
C1_Original ==
    (gkind = "render" /\ gpc = "done" /\ C1_Pre(msg)) => parsed = msg

\* C1 as amended: render then parse is the identity on every Message whose
\* source (if present) contains no space and whose command and non-last
\* parameters are non-empty, contain no space and do not start with a colon;
\* the last parameter is free (it may be empty, contain spaces, start with ':').
C1_RoundTrip ==
    (/\ gkind = "render" /\ gpc = "done"
     /\ msg.source # None => HasNoSpace(msg.source[1])
     /\ IsPlain(msg.command)
     /\ \A p \in NonLast(msg) : IsPlain(p))
    => parsed = msg

\* C1 witness: a rendered and parsed message whose only parameter contains a space
C1_Witness ==
    /\ gkind = "render" /\ gpc = "done"
    /\ IsPlain(msg.command)
    /\ msg.parameters = << <<"a", " ", "b">> >>
    /\ parsed = msg

\* C2: a line [':' S ' '] C (' ' p_i)* [' :' T] with S, C, p_i non-empty and
\* space-free, C and p_i not starting with ':', parses to source S (absent
\* without the prefix), command C and parameters p_1..p_n followed by T, where
\* T is everything after the colon; an empty T is present as the empty text.
C2_ParseWire ==
    (/\ gkind = "wire" /\ gpc = "done"
     /\ msg.source # None => (msg.source[1] # <<>> /\ HasNoSpace(msg.source[1]))
     /\ IsPlain(msg.command)
     /\ \A p \in NonLast(msg) : IsPlain(p)
     /\ (~trailing /\ msg.parameters # <<>>) => IsPlain(msg.parameters[Len(msg.parameters)]))
    => parsed = msg

\* C2 witness: a parsed wire line with a prefix, a plain parameter and an empty trailing one
C2_Witness ==
    /\ gkind = "wire" /\ gpc = "done" /\ trailing
    /\ msg.source = Some(<<"a">>)
    /\ msg.command = <<"b">>
    /\ msg.parameters = << <<"a">>, <<>> >>
    /\ parsed = msg
    /\ Len(parsed.parameters) = 2

----------------------------------------------------------------------------
(* shapes: what serde's derive and the standard impls make of a Rust type *)

Str == [k |-> "str"]                          \* &str
Bool == [k |-> "bool"]
I8 == [k |-> "i8"]
U8 == [k |-> "u8"]
Char == [k |-> "char"]
Opt(inner) == [k |-> "option", inner |-> inner]     \* Option<T>
Vec(inner) == [k |-> "seq", inner |-> inner]        \* Vec<T>
Tuple(fs) == [k |-> "tuple", fields |-> fs] \* a tuple, or the fields of a struct
Enum(variants) == [k |-> "enum", variants |-> variants]
\* a variant: its name on the wire, its form ("unit", "newtype" or "struct") and
\* the shape of its payload
Variant(name, form, payload) == [name |-> name, form |-> form, payload |-> payload]
Unit == [k |-> "unit"]

LowerCase == <<"a","b","c","d","e","f","g","h","i","j","k","l","m",
               "n","o","p","q","r","s","t","u","v","w","x","y","z">>
UpperCase == <<"A","B","C","D","E","F","G","H","I","J","K","L","M",
               "N","O","P","Q","R","S","T","U","V","W","X","Y","Z">>

\* serde's rename_all = "UPPERCASE" applied to a variant's Rust name
rename_all_UPPERCASE(name) ==
    [i \in 1..Len(name) |->
        IF \E j \in 1..26 : LowerCase[j] = name[i]
        THEN UpperCase[CHOOSE j \in 1..26 : LowerCase[j] = name[i]]
        ELSE name[i]]

\* enum Cap (mod.rs 38-42): no rename attribute, the variants keep their names
Cap ==
    Enum(<< Variant(<<"R","e","q">>, "struct", Tuple(<<Str>>)),
            Variant(<<"E","n","d">>, "unit", Unit) >>)

\* enum Command (mod.rs 9-36), #[serde(rename_all = "UPPERCASE")]
Command ==
    Enum(<< Variant(rename_all_UPPERCASE(<<"C","a","p">>), "newtype", Cap),
            Variant(rename_all_UPPERCASE(<<"A","u","t","h","e","n","t","i","c","a","t","e">>),
                    "struct", Tuple(<<Str>>)),
            Variant(rename_all_UPPERCASE(<<"P","o","n","g">>), "struct", Tuple(<<Opt(Str), Str>>)),
            Variant(rename_all_UPPERCASE(<<"N","i","c","k">>), "struct", Tuple(<<Str>>)),
            Variant(rename_all_UPPERCASE(<<"U","s","e","r">>), "struct", Tuple(<<Str, Str>>)),
            Variant(rename_all_UPPERCASE(<<"K","i","c","k">>), "struct",
                    Tuple(<<Str, Vec(Str), Opt(Str)>>)),
            Variant(rename_all_UPPERCASE(<<"T","o","p","i","c">>), "struct",
                    Tuple(<<Str, Opt(Str)>>)) >>)

\* the positions of Command's variants
V_Cap == 1
V_Pong == 3
V_Kick == 6
\* the positions of Cap's variants
V_Req == 1

----------------------------------------------------------------------------
(* scalar conversions of the standard library *)

DigitChars == <<"0","1","2","3","4","5","6","7","8","9">>

RECURSIVE Digits(_)
Digits(n) == IF n < 10 THEN <<DigitChars[n + 1]>>
             ELSE Digits(n \div 10) \o <<DigitChars[(n % 10) + 1]>>

\* <integer>::to_string
to_string(v) == IF v < 0 THEN <<"-">> \o Digits(-v) ELSE Digits(v)

IsDigit(c) == \E d \in 1..10 : DigitChars[d] = c
DigitValue(c) == (CHOOSE d \in 1..10 : DigitChars[d] = c) - 1

RECURSIVE DecimalValue(_)
DecimalValue(ds) ==
    IF ds = <<>> THEN 0
    ELSE 10 * DecimalValue(SubSeq(ds, 1, Len(ds) - 1)) + DigitValue(ds[Len(ds)])

Ok(v) == [ok |-> TRUE, v |-> v, err |-> "none"]
Err(e) == [ok |-> FALSE, v |-> <<>>, err |-> e]

\* <integer>::from_str for a type of range lo..hi: an optional sign ('-' only
\* for a signed type), then decimal digits; an empty text, a lone sign, a
\* non-digit or a value out of range is an error
parse_int(src, lo, hi) ==
    LET signed == lo < 0
        neg == signed /\ src # <<>> /\ Head(src) = "-"
        digits == IF src # <<>> /\ (Head(src) = "+" \/ neg) THEN Tail(src) ELSE src
        n == IF neg THEN -DecimalValue(digits) ELSE DecimalValue(digits)
    IN  IF src = <<>> \/ digits = <<>> THEN Err("Deserialize")
        ELSE IF \E i \in 1..Len(digits) : ~IsDigit(digits[i]) THEN Err("Deserialize")
        ELSE IF n < lo \/ n > hi THEN Err("Deserialize")
        ELSE Ok(n)

\* bool::from_str: exactly "true" or "false"
parse_bool(src) ==
    IF src = <<"t","r","u","e">> THEN Ok(TRUE)
    ELSE IF src = <<"f","a","l","s","e">> THEN Ok(FALSE)
    ELSE Err("Deserialize")

\* char::from_str: exactly one character
parse_char(src) == IF Len(src) = 1 THEN Ok(src[1]) ELSE Err("Deserialize")

I8_MIN == -128
I8_MAX == 127
U8_MAX == 255

\* the token serialize_bool pushes (ser.rs 71)
bool_token(v) == IF v THEN <<"1">> ELSE <<"0">>

----------------------------------------------------------------------------
(* ser.rs: the encoder *)

RECURSIVE join(_, _)
\* [Box<str>]::join(sep)
join(parts, sep) ==
    IF parts = <<>> THEN <<>>
    ELSE IF Len(parts) = 1 THEN parts[1]
    ELSE parts[1] \o sep \o join(Tail(parts), sep)

RECURSIVE serialize(_, _)
RECURSIVE serialize_fields(_, _)
RECURSIVE serialize_elements(_, _)

\* SerializeTuple / SerializeStruct / SerializeStructVariant: every field in
\* declared order, into the same Serializer
serialize_fields(fs, v) ==
    IF fs = <<>> THEN <<>>
    ELSE serialize(Head(fs), Head(v)) \o serialize_fields(Tail(fs), Tail(v))

\* SerializeSeq for Sequence, serialize_element: every item into a Serializer
\* of its own, whose args extend the sequence's list
serialize_elements(inner, items) ==
    IF items = <<>> THEN <<>>
    ELSE serialize(inner, Head(items)) \o serialize_elements(inner, Tail(items))

\* value.serialize(&mut ser): the tokens pushed to args, in order
serialize(sh, v) ==
    CASE sh.k = "str" -> << v >>
      [] sh.k = "bool" -> << bool_token(v) >>
      [] sh.k \in { "i8", "u8" } -> << to_string(v) >>
      [] sh.k = "char" -> << <<v>> >>
      [] sh.k = "unit" -> <<>>
      [] sh.k = "option" -> IF v = None THEN <<>> ELSE serialize(sh.inner, v[1])
      [] sh.k = "seq" -> << join(serialize_elements(sh.inner, v), <<",">>) >>
      [] sh.k = "tuple" -> serialize_fields(sh.fields, v)
      [] sh.k = "enum" ->
            << sh.variants[v[1]].name >> \o serialize(sh.variants[v[1]].payload, v[2])

\* Serializer::new(value): args after serializing value
Serializer_new(sh, v) == serialize(sh, v)

\* Serializer::to_message
to_message(a) ==
    IF a = <<>> THEN Err("Eof")
    ELSE Ok(Message(None, Head(a), Tail(a)))

----------------------------------------------------------------------------
(* de.rs: the token cursor *)

RECURSIVE Reverse(_)
Reverse(l) == IF l = <<>> THEN <<>> ELSE Append(Reverse(Tail(l)), Head(l))

\* a read_part that hands out the next parameter and leaves it on the stack
Deserializer_read_part_peek(h, ps) ==
    IF h # None THEN [ok |-> TRUE, part |-> h[1], head |-> None, params |-> ps]
    ELSE IF ps # <<>> THEN [ok |-> TRUE, part |-> ps[Len(ps)], head |-> None, params |-> ps]
    ELSE [ok |-> FALSE, part |-> <<>>, head |-> None, params |-> ps]

\* Deserializer::read_part on input = (h, ps): the head if there is one, else
\* the parameter popped from the stack, else Eof; and the input it leaves
Deserializer_read_part(h, ps) ==
    IF h # None THEN [ok |-> TRUE, part |-> h[1], head |-> None, params |-> ps]
    ELSE IF ps # <<>>
         THEN [ok |-> TRUE, part |-> ps[Len(ps)], head |-> None,
               params |-> SubSeq(ps, 1, Len(ps) - 1)]
    ELSE [ok |-> FALSE, part |-> <<>>, head |-> None, params |-> ps]

\* Deserializer::available
available(h, ps) == (IF h # None THEN 1 ELSE 0) + Len(ps)

\* a guard that asks for one token more than the counter
option_is_some_strict(avail, flds) == avail > flds

\* the guard of deserialize_option (de.rs 101)
option_is_some(avail, flds) == avail >= flds

\* a split that hands the whole part to the first item
split_item_whole(part) == <<part, <<>>>>

\* Sequence::next_element_seed, de.rs 204:
\* part.split_once(',').unwrap_or((part, ""))
split_item(part) ==
    LET sp == split_once(part, ",")
    IN  IF sp = None THEN <<part, <<>>>> ELSE sp[1]

\* the position of the variant named name, 0 when the enum has none
variant_index(variants, name) ==
    IF \E i \in 1..Len(variants) : variants[i].name = name
    THEN CHOOSE i \in 1..Len(variants) : variants[i].name = name
    ELSE 0

\* visits_fromstr!: self.read_part()?.parse()? for a scalar kind
parse_scalar(k, part) ==
    CASE k = "bool" -> parse_bool(part)
      [] k = "i8" -> parse_int(part, I8_MIN, I8_MAX)
      [] k = "u8" -> parse_int(part, 0, U8_MAX)
      [] k = "char" -> parse_char(part)

----------------------------------------------------------------------------
(* de.rs: the decoder, one call or return per step *)

\* a call in progress: op is what it waits to do, sh its shape, i the field of
\* a tuple being decoded, acc the values gathered so far, rest the text a
\* Sequence puts back into the head once its item has been decoded
Frame(op, sh, i, acc, rest) == [op |-> op, sh |-> sh, i |-> i, acc |-> acc, rest |-> rest]
Call(sh) == Frame("de", sh, 0, <<>>, None)

Top == stack[Len(stack)]
Pop == SubSeq(stack, 1, Len(stack) - 1)
Running == cpc = "decode" /\ err = None /\ stack # <<>>
Calling(k) == Running /\ ret = None /\ Top.op = "de" /\ Top.sh.k = k

\* deserialize_str (de.rs 84-86)
deserialize_str ==
    /\ Calling("str")
    /\ LET r == Deserializer_read_part(head, params)
       IN  /\ head' = r.head
           /\ params' = r.params
           /\ stack' = Pop
           /\ IF r.ok
              THEN ret' = Some(r.part) /\ err' = None /\ taken' = Append(taken, r.part)
              ELSE ret' = None /\ err' = Some("Eof") /\ taken' = taken
    /\ UNCHANGED <<gvars, shape, value, given, path, args, cpc, fields, result>>

\* visits_fromstr! (de.rs 34-40, 61-65): deserialize_bool, _i8, _u8, _char
deserialize_scalar ==
    /\ Running /\ ret = None /\ Top.op = "de"
    /\ Top.sh.k \in { "bool", "i8", "u8", "char" }
    /\ LET r == Deserializer_read_part(head, params)
           v == parse_scalar(Top.sh.k, r.part)
       IN  /\ head' = r.head
           /\ params' = r.params
           /\ stack' = Pop
           /\ taken' = IF r.ok THEN Append(taken, r.part) ELSE taken
           /\ IF ~r.ok THEN ret' = None /\ err' = Some("Eof")
              ELSE IF ~v.ok THEN ret' = None /\ err' = Some(v.err)
              ELSE ret' = Some(v.v) /\ err' = None
    /\ UNCHANGED <<gvars, shape, value, given, path, args, cpc, fields, result>>

\* deserialize_option (de.rs 100-106)
deserialize_option ==
    /\ Calling("option")
    /\ IF option_is_some(available(head, params), fields)
       THEN /\ stack' = Pop \o << Frame("some", Top.sh, 0, <<>>, None), Call(Top.sh.inner) >>
            /\ ret' = None
       ELSE /\ stack' = Pop
            /\ ret' = Some(None)
    /\ UNCHANGED <<gvars, shape, value, given, path, args, cpc, head, params, fields, err,
                   taken, result>>

\* visit_some returns: the inner value, wrapped
visit_some ==
    /\ Running /\ ret # None /\ Top.op = "some"
    /\ ret' = Some(Some(ret[1]))
    /\ stack' = Pop
    /\ UNCHANGED <<gvars, shape, value, given, path, args, cpc, head, params, fields, err,
                   taken, result>>

\* deserialize_tuple (de.rs 76-82), also deserialize_struct, struct_variant and
\* tuple_variant through forward_tuple!
deserialize_tuple ==
    /\ Calling("tuple")
    /\ fields' = fields + Len(Top.sh.fields)
    /\ stack' = Pop \o << Frame("tuple", Top.sh, 1, <<>>, None) >>
    /\ UNCHANGED <<gvars, shape, value, given, path, args, cpc, head, params, ret, err,
                   taken, result>>

\* SeqAccess for &mut Deserializer, next_element_seed (de.rs 179-186), the call
\* seed.deserialize(&mut **self)
next_element_seed_call ==
    /\ Running /\ ret = None /\ Top.op = "tuple" /\ Top.i <= Len(Top.sh.fields)
    /\ stack' = Append(stack, Call(Top.sh.fields[Top.i]))
    /\ UNCHANGED <<gvars, shape, value, given, path, args, cpc, head, params, fields, ret,
                   err, taken, result>>

\* next_element_seed after the call: self.fields -= 1; Ok(Some(v))
next_element_seed_return ==
    /\ Running /\ ret # None /\ Top.op = "tuple"
    /\ fields' = fields - 1
    /\ stack' = Pop \o << Frame("tuple", Top.sh, Top.i + 1, Append(Top.acc, ret[1]), None) >>
    /\ ret' = None
    /\ UNCHANGED <<gvars, shape, value, given, path, args, cpc, head, params, err, taken,
                   result>>

\* the tuple's visitor has every field: visit_seq returns the value
visit_seq_tuple_end ==
    /\ Running /\ ret = None /\ Top.op = "tuple" /\ Top.i > Len(Top.sh.fields)
    /\ ret' = Some(Top.acc)
    /\ stack' = Pop
    /\ UNCHANGED <<gvars, shape, value, given, path, args, cpc, head, params, fields, err,
                   taken, result>>

\* deserialize_seq (de.rs 126-128): visitor.visit_seq(Sequence(self))
deserialize_seq ==
    /\ Calling("seq")
    /\ stack' = Pop \o << Frame("seq", Top.sh, 0, <<>>, None) >>
    /\ UNCHANGED <<gvars, shape, value, given, path, args, cpc, head, params, fields, ret,
                   err, taken, result>>

\* SeqAccess for Sequence, next_element_seed (de.rs 194-207): read a part; an
\* empty part ends the sequence; else its first comma-split piece becomes the
\* head and the item is decoded
Sequence_next_element_seed_call ==
    /\ Running /\ ret = None /\ Top.op = "seq"
    /\ LET r == Deserializer_read_part(head, params)
           sp == split_item(r.part)
       IN  /\ params' = r.params
           /\ taken' = IF r.ok THEN Append(taken, r.part) ELSE taken
           /\ IF ~r.ok
              THEN /\ head' = r.head /\ stack' = Pop
                   /\ ret' = None /\ err' = Some("Eof")
              ELSE IF r.part = <<>>
              THEN /\ head' = r.head /\ stack' = Pop
                   /\ ret' = Some(Top.acc) /\ err' = None
              ELSE /\ head' = Some(sp[1])
                   /\ stack' = Pop \o << Frame("seq", Top.sh, 0, Top.acc, Some(sp[2])),
                                         Call(Top.sh.inner) >>
                   /\ ret' = None /\ err' = None
    /\ UNCHANGED <<gvars, shape, value, given, path, args, cpc, fields, result>>

\* Sequence::next_element_seed after the item (de.rs 208-209):
\* self.0.input.0 = Some(rest); v
Sequence_next_element_seed_return ==
    /\ Running /\ ret # None /\ Top.op = "seq"
    /\ head' = Some(Top.rest[1])
    /\ stack' = Pop \o << Frame("seq", Top.sh, 0, Append(Top.acc, ret[1]), None) >>
    /\ ret' = None
    /\ UNCHANGED <<gvars, shape, value, given, path, args, cpc, params, fields, err, taken,
                   result>>

\* deserialize_enum (de.rs 130-137) with variant_seed (148-153) and
\* deserialize_identifier (139-141): read the tag, find the variant, and go on
\* with unit_variant, newtype_variant_seed or struct_variant
deserialize_enum ==
    /\ Calling("enum")
    /\ LET r == Deserializer_read_part(head, params)
           i == variant_index(Top.sh.variants, r.part)
       IN  /\ head' = r.head
           /\ params' = r.params
           /\ taken' = IF r.ok THEN Append(taken, r.part) ELSE taken
           /\ IF ~r.ok
              THEN stack' = Pop /\ ret' = None /\ err' = Some("Eof")
              ELSE IF i = 0
              THEN stack' = Pop /\ ret' = None /\ err' = Some("Deserialize")
              ELSE IF Top.sh.variants[i].form = "unit"
              THEN stack' = Pop /\ ret' = Some(<<i, <<>>>>) /\ err' = None
              ELSE /\ stack' = Pop \o << Frame("variant", Top.sh, i, <<>>, None),
                                         Call(Top.sh.variants[i].payload) >>
                   /\ ret' = None /\ err' = None
    /\ UNCHANGED <<gvars, shape, value, given, path, args, cpc, fields, result>>

\* the variant's payload is decoded: visit_enum returns the enum's value
visit_enum_return ==
    /\ Running /\ ret # None /\ Top.op = "variant"
    /\ ret' = Some(<<Top.i, ret[1]>>)
    /\ stack' = Pop
    /\ UNCHANGED <<gvars, shape, value, given, path, args, cpc, head, params, fields, err,
                   taken, result>>

\* `?`: an error leaves the call in progress; a Sequence waiting for its item
\* still puts the rest back (de.rs 207-209)
propagate_error ==
    /\ cpc = "decode" /\ err # None /\ stack # <<>>
    /\ head' = IF Top.op = "seq" /\ Top.rest # None THEN Some(Top.rest[1]) ELSE head
    /\ stack' = Pop
    /\ UNCHANGED <<gvars, shape, value, given, path, args, cpc, params, fields, ret, err,
                   taken, result>>

\* T::deserialize(&mut de) has returned
decode_return ==
    /\ cpc = "decode" /\ stack = <<>>
    /\ result' = IF err # None THEN Err(err[1]) ELSE Ok(ret[1])
    /\ cpc' = "done"
    /\ UNCHANGED <<gvars, shape, value, given, path, args, head, params, fields, stack, ret,
                   err, taken>>

----------------------------------------------------------------------------
(* the pipeline: encode -> to_message [-> line -> parse] -> from_message -> decode *)

\* Serializer::new(value)
Serialize ==
    /\ cpc = "serialize"
    /\ args' = Serializer_new(shape, value)
    /\ cpc' = "to_message"
    /\ UNCHANGED <<gkind, msg, trailing, line, parsed, gpc, shape, value, given, path,
                   head, params, fields, stack, ret, err, taken, result>>

\* Serializer::to_message
ToMessage ==
    /\ cpc = "to_message"
    /\ LET m == to_message(args)
       IN  IF m.ok
           THEN /\ msg' = m.v
                /\ cpc' = IF path = "line" THEN "render" ELSE "from_message"
                /\ result' = result
           ELSE /\ msg' = msg
                /\ cpc' = "done"
                /\ result' = Err(m.err)
    /\ UNCHANGED <<gkind, trailing, line, parsed, gpc, shape, value, given, path, args,
                   head, params, fields, stack, ret, err, taken>>

\* msg.to_string()
RenderLine ==
    /\ cpc = "render"
    /\ line' = Display(msg)
    /\ cpc' = "parse"
    /\ UNCHANGED <<gkind, msg, trailing, parsed, gpc, shape, value, given, path, args,
                   head, params, fields, stack, ret, err, taken, result>>

\* Message::try_from(line)
ParseLine ==
    /\ cpc = "parse"
    /\ parsed' = try_from(line)
    /\ cpc' = "from_message"
    /\ UNCHANGED <<gkind, msg, trailing, line, gpc, shape, value, given, path, args,
                   head, params, fields, stack, ret, err, taken, result>>

\* the Message the decoder is given
Received == IF path = "line" THEN parsed ELSE msg

\* Deserializer::from_message (de.rs 11-17), then T::deserialize(&mut de)
from_message ==
    /\ cpc = "from_message"
    /\ head' = Some(Received.command)
    /\ params' = Reverse(Received.parameters)
    /\ fields' = 0
    /\ stack' = << Call(shape) >>
    /\ cpc' = "decode"
    /\ UNCHANGED <<gvars, shape, value, given, path, args, ret, err, taken, result>>

----------------------------------------------------------------------------
(* the inputs of the encoder and decoder *)

MaxList == 2      \* items of a sequence value
MaxFields == 3    \* fields of a tuple with one optional field
MaxTokens == 3    \* tokens of a token list given to the decoder

S_ops == <<"o","p","s">>
S_sasl == <<"s","a","s","l">>
S_REQ == <<"R","E","Q">>

\* texts that are non-empty and free of commas, spaces and colons
GoodText == { S_ops, S_sasl }
\* and texts that are not: the empty text, a text with a comma
TextAtoms == GoodText \cup { <<>>, <<"a",",","b">> }
CharAtoms == { "a", "1", " ", ",", ":" }

RECURSIVE ValuesOf(_, _)
RECURSIVE TupleValues(_, _)

TupleValues(fs, atoms) ==
    IF fs = <<>> THEN { <<>> }
    ELSE { <<h>> \o t : h \in ValuesOf(Head(fs), atoms), t \in TupleValues(Tail(fs), atoms) }

\* the values of shape sh whose texts are in atoms and whose lists have at
\* most MaxList items
ValuesOf(sh, atoms) ==
    CASE sh.k = "str" -> atoms
      [] sh.k = "bool" -> BOOLEAN
      [] sh.k = "i8" -> I8_MIN..I8_MAX
      [] sh.k = "u8" -> 0..U8_MAX
      [] sh.k = "char" -> CharAtoms
      [] sh.k = "unit" -> { <<>> }
      [] sh.k = "option" -> { None } \cup { Some(v) : v \in ValuesOf(sh.inner, atoms) }
      [] sh.k = "seq" -> ListsOf(ValuesOf(sh.inner, atoms), MaxList)
      [] sh.k = "tuple" -> TupleValues(sh.fields, atoms)
      [] sh.k = "enum" ->
            UNION { { <<i, p>> : p \in ValuesOf(sh.variants[i].payload, atoms) } :
                        i \in 1..Len(sh.variants) }

\* the tuples of n text fields of which exactly field i is optional
OneOpt(n, i) == Tuple([j \in 1..n |-> IF j = i THEN Opt(Str) ELSE Str])
OneOptShapes == UNION { { OneOpt(n, i) : i \in 1..n } : n \in 2..MaxFields }

Pair == Tuple(<<Str, Str>>)
KickFields == Tuple(<<Str, Vec(Str), Opt(Str)>>)
ScalarShapes == { Bool, I8, U8, Char }
SeveralOpt == Tuple(<<Str, Opt(Str), Opt(Str)>>)
NestedOpt == Tuple(<<Tuple(<<Str, Opt(Str)>>), Str>>)
OptBeforeNested == Tuple(<<Opt(Str), Pair>>)
NestedBeforeOpt == Tuple(<<Str, Pair, Opt(Str)>>)
PairList == Vec(Pair)
PairListThenText == Tuple(<<Vec(Pair), Str>>)

\* the shapes whose values are drawn over every text, and over the good texts only
WideShapes == OneOptShapes \cup ScalarShapes \cup { Vec(Str), KickFields, Command, Cap }
NarrowShapes == { SeveralOpt, NestedOpt, OptBeforeNested, NestedBeforeOpt,
                  PairList, PairListThenText }
Shapes == WideShapes \cup NarrowShapes

AtomsFor(sh) == IF sh \in WideShapes THEN TextAtoms ELSE GoodText

\* token lists handed to the decoder as they are
GivenTokens ==
    ListsOf({ S_ops, <<>>, <<"a",",","b">> }, MaxTokens)
        \cup { << S_REQ, S_sasl >>, << <<"R","e","q">>, S_sasl >> }

GrammarOff ==
    /\ gkind = "off" /\ trailing = FALSE /\ gpc = "off"
    /\ msg = NoMessage /\ line = <<>> /\ parsed = NoMessage

InitCodec ==
    /\ GrammarOff
    /\ shape \in Shapes
    /\ given \in { "value", "tokens" }
    /\ IF given = "value"
       THEN /\ value \in ValuesOf(shape, AtomsFor(shape))
            /\ args = <<>>
            /\ path \in { "tokens", "line" }
            /\ cpc = "serialize"
       ELSE /\ value = <<>>
            /\ args \in GivenTokens
            /\ path = "tokens"
            /\ cpc = "to_message"
    /\ head = None /\ params = <<>> /\ fields = 0
    /\ stack = <<>> /\ ret = None /\ err = None /\ taken = <<>>
    /\ result = Err("none")

NextCodec ==
    \/ Serialize \/ ToMessage \/ RenderLine \/ ParseLine \/ from_message
    \/ deserialize_str \/ deserialize_scalar
    \/ deserialize_option \/ visit_some
    \/ deserialize_tuple \/ next_element_seed_call \/ next_element_seed_return
    \/ visit_seq_tuple_end
    \/ deserialize_seq \/ Sequence_next_element_seed_call
    \/ Sequence_next_element_seed_return
    \/ deserialize_enum \/ visit_enum_return
    \/ propagate_error \/ decode_return

SpecCodec == InitCodec /\ [][NextCodec]_vars

----------------------------------------------------------------------------
(* claims about the encoder and decoder *)

\* the whole pipeline has run and the decoder returned v
Decoded(v) == cpc = "done" /\ result.ok /\ result.v = v
\* args hold the encoder's output for value
Encoded == given = "value" /\ cpc # "serialize"

HasNoComma(t) == \A i \in 1..Len(t) : t[i] # ","
\* a text that is non-empty, free of commas and spaces, and starts with no colon
IsGoodText(t) == IsPlain(t) /\ HasNoComma(t)
ItemsGood(items) == \A i \in 1..Len(items) : items[i] # <<>> /\ HasNoComma(items[i])

RECURSIVE CommaJoined(_)
\* the items with a comma between each two
CommaJoined(items) ==
    IF items = <<>> THEN <<>>
    ELSE IF Len(items) = 1 THEN items[1]
    ELSE CommaJoined(SubSeq(items, 1, Len(items) - 1)) \o <<",">> \o items[Len(items)]

OptionalAt(sh) == CHOOSE i \in 1..Len(sh.fields) : sh.fields[i].k = "option"
PongFields == Command.variants[V_Pong].payload

\* C3: for a tuple of text fields with exactly one Optional field, at any
\* position, and for Pong's (Optional(server), token): encoding with the
\* optional present emits one token per field and decoding returns the value
\* with Some; with the optional absent one token fewer is emitted and decoding
\* returns None, every other field unchanged.
C3_OptionalSymmetry ==
    /\ (Encoded /\ shape \in OneOptShapes) =>
          /\ Len(args) = Len(shape.fields)
                            - (IF value[OptionalAt(shape)] = None THEN 1 ELSE 0)
          /\ (path = "tokens" /\ cpc = "done") => Decoded(value)
    /\ (Encoded /\ shape = Command /\ value[1] = V_Pong) =>
          /\ Len(args) = 1 + Len(PongFields.fields)
                            - (IF value[2][1] = None THEN 1 ELSE 0)
          /\ (path = "tokens" /\ cpc = "done") => Decoded(value)

\* C3 witness: a tuple whose middle field is absent was encoded to two tokens and decoded back
C3_Witness ==
    /\ Encoded /\ path = "tokens"
    /\ shape = OneOpt(3, 2)
    /\ value = << S_ops, None, S_sasl >>
    /\ args = << S_ops, S_sasl >>
    /\ Decoded(value)

\* C4: a sequence of non-empty, comma-free texts is encoded as exactly one
\* token, the items joined with ',', also inside a tuple before an optional
\* field; decoding that token yields the items in order and leaves the
\* following tokens to the following fields; a sequence of no items encodes
\* to the empty token and the empty token decodes to the empty sequence.
C4_SequenceSymmetry ==
    /\ (Encoded /\ shape = Vec(Str) /\ ItemsGood(value)) =>
          /\ args = << CommaJoined(value) >>
          /\ value = <<>> => args = << <<>> >>
          /\ (path = "tokens" /\ cpc = "done") => Decoded(value)
    /\ (Encoded /\ shape = KickFields /\ ItemsGood(value[2])) =>
          /\ args = << value[1], CommaJoined(value[2]) >> \o value[3]
          /\ (path = "tokens" /\ cpc = "done") => Decoded(value)
    /\ (given = "tokens" /\ shape = Vec(Str) /\ cpc = "done") =>
          /\ args = << <<>> >> => Decoded(<<>>)
          /\ args = << <<"a",",","b">> >> => Decoded(<< <<"a">>, <<"b">> >>)
          /\ args = << S_ops, S_ops >> => Decoded(<< S_ops >>) /\ params = << S_ops >>

\* C4 witness: ["ops","sasl"] before a present optional field took one token, "ops,sasl",
\* and was decoded back with the optional field
C4_Witness ==
    /\ Encoded /\ path = "tokens"
    /\ shape = KickFields
    /\ value = << S_ops, << S_ops, S_sasl >>, Some(S_sasl) >>
    /\ args = << S_ops, <<"o","p","s",",","s","a","s","l">>, S_sasl >>
    /\ Decoded(value)

\* C5: encoding a tagged union pushes the variant's name and then the payload's
\* tokens, and decoding that token list returns the value; Cap::Req{caps:"sasl"}
\* under command CAP encodes to ["CAP","REQ","sasl"], and ["REQ","sasl"] decodes
\* against Cap to Req{caps:"sasl"}.
C5_TaggedUnion ==
    /\ (Encoded /\ shape \in { Command, Cap }
          /\ ((shape = Command /\ value[1] = V_Kick) => ItemsGood(value[2][2]))) =>
          /\ args[1] = shape.variants[value[1]].name
          /\ (path = "tokens" /\ cpc = "done") => Decoded(value)
    /\ (Encoded /\ shape = Command /\ value = << V_Cap, << V_Req, << S_sasl >> >> >>) =>
          args = << <<"C","A","P">>, S_REQ, S_sasl >>
    /\ (given = "tokens" /\ shape = Cap /\ args = << S_REQ, S_sasl >> /\ cpc = "done") =>
          Decoded(<< V_Req, << S_sasl >> >>)

RECURSIVE GoodValue(_, _)
\* every text of the value v of shape sh is a good text
GoodValue(sh, v) ==
    CASE sh.k = "str" -> IsGoodText(v)
      [] sh.k = "option" -> v = None \/ GoodValue(sh.inner, v[1])
      [] sh.k = "seq" -> \A i \in 1..Len(v) : GoodValue(sh.inner, v[i])
      [] sh.k = "tuple" -> \A i \in 1..Len(v) : GoodValue(sh.fields[i], v[i])
      [] sh.k = "enum" -> GoodValue(sh.variants[v[1]].payload, v[2])
      [] OTHER -> TRUE

\* C6: for every Command whose texts are non-empty, comma-free, space-free and
\* start with no colon, with lists of any length, encode -> to_message ->
\* render -> parse -> decode returns the Command.
C6_EndToEnd ==
    (Encoded /\ shape = Command /\ path = "line" /\ cpc = "done" /\ GoodValue(shape, value))
        => Decoded(value)

\* C7: for every integer, char or boolean the encoder pushes exactly one token
\* and decoding that token against the same kind returns the value.
C7_ScalarRoundTrip ==
    (Encoded /\ shape \in ScalarShapes) =>
        /\ Len(args) = 1
        /\ (path = "tokens" /\ cpc = "done") => Decoded(value)

RECURSIVE MandatoryTokens(_)
RECURSIVE SumMandatory(_)
SumMandatory(fs) ==
    IF fs = <<>> THEN 0 ELSE MandatoryTokens(Head(fs)) + SumMandatory(Tail(fs))
\* the tokens a shape cannot do without: none for an optional field, one for a
\* text, a scalar, a sequence or a tag, the sum of its fields for a tuple
MandatoryTokens(sh) ==
    CASE sh.k = "option" -> 0
      [] sh.k = "unit" -> 0
      [] sh.k = "tuple" -> SumMandatory(sh.fields)
      [] OTHER -> 1

RECURSIVE MandatoryAfter(_)
\* the tokens still mandatory after the field in progress, over every tuple
\* being decoded
MandatoryAfter(st) ==
    IF st = <<>> THEN 0
    ELSE MandatoryAfter(SubSeq(st, 1, Len(st) - 1))
            + (IF st[Len(st)].op = "tuple"
               THEN SumMandatory(SubSeq(st[Len(st)].sh.fields, st[Len(st)].i + 1,
                                        Len(st[Len(st)].sh.fields)))
               ELSE 0)

TupleShapes == OneOptShapes \cup { SeveralOpt, NestedOpt, OptBeforeNested, NestedBeforeOpt }

\* C8: whenever the decoder reaches an Optional field of a tuple shape, it
\* decodes the inner value exactly when remaining_count is at least the number
\* of tokens still mandatory from there on, this field counted as mandatory;
\* otherwise it yields absent and leaves the cursor unchanged.
C8_OptionalRule ==
    [][ (Calling("option") /\ shape \in TupleShapes) =>
            /\ (ret' = None) <=>
                  (available(head, params)
                      >= MandatoryTokens(Top.sh.inner) + MandatoryAfter(stack))
            /\ (ret' # None) => (ret' = Some(None) /\ head' = head /\ params' = params)
      ]_vars

RECURSIVE Flatten(_)
Flatten(ls) == IF ls = <<>> THEN <<>> ELSE Head(ls) \o Flatten(Tail(ls))

\* C9: a sequence of k two-field items is one token of 2k comma-separated
\* pieces, item-major; decoding it takes both fields of every item from that
\* token's pieces, so it returns the k items and consumes no other parameter.
C9_PairSequences ==
    /\ (Encoded /\ shape = PairList) => args = << CommaJoined(Flatten(value)) >>
    /\ (Encoded /\ shape = PairListThenText) =>
          args = << CommaJoined(Flatten(value[1])), value[2] >>
    /\ (Encoded /\ shape \in { PairList, PairListThenText }
          /\ path = "tokens" /\ cpc = "done") => Decoded(value)

RECURSIVE HasSequence(_)
HasSequence(sh) ==
    CASE sh.k = "seq" -> TRUE
      [] sh.k = "option" -> HasSequence(sh.inner)
      [] sh.k = "tuple" -> \E i \in 1..Len(sh.fields) : HasSequence(sh.fields[i])
      [] sh.k = "enum" -> \E i \in 1..Len(sh.variants) : HasSequence(sh.variants[i].payload)
      [] OTHER -> FALSE

IsPrefix(a, b) == Len(a) <= Len(b) /\ a = SubSeq(b, 1, Len(a))
\* the tokens the cursor was built over: the command, then the parameters
OriginalTokens == << Received.command >> \o Received.parameters
\* the step takes a token from the cursor
TakesToken ==
    /\ Running /\ ret = None
    /\ \/ Top.op = "seq"
       \/ Top.op = "de" /\ Top.sh.k \in { "str", "bool", "i8", "u8", "char", "enum" }

\* C10 as stated: in any decode, sequences included, once the head has been
\* consumed it is never populated again, the parameter stack only shrinks and
\* remaining_count never increases from one step to the next.
C10_Original ==
    [][ cpc = "decode" =>
            /\ (head = None => head' = None)
            /\ IsPrefix(params', params)
            /\ available(head', params') <= available(head, params)
      ]_vars

C10_Kept ==
    cpc = "decode" =>
        /\ IsPrefix(params, Reverse(Received.parameters))
        /\ ~HasSequence(shape) => taken \o head \o Reverse(params) = OriginalTokens

C10_Step ==
    cpc = "decode" =>
        /\ IsPrefix(params', params)
        /\ (head = None /\ head' # None) => (stack # <<>> /\ Top.op = "seq")
        /\ ~HasSequence(shape) =>
              /\ (head = None => head' = None)
              /\ available(head', params') <= available(head, params)
        /\ (TakesToken /\ available(head, params) = 0) => err' = Some("Eof")
        /\ (err = None /\ err' = Some("Eof")) => (TakesToken /\ available(head, params) = 0)

\* C10 as amended: in any decode the parameter stack only shrinks, popped in
\* the original order, and a take from an empty cursor, and no other, fails
\* with Eof; the head is populated again only by a Sequence, with a piece of
\* the token it took; for a shape with no sequence the cursor hands out each
\* token exactly once in the order [command, parameter 1..n], the head is
\* never populated again and remaining_count never increases.
C10_CursorDiscipline == [] C10_Kept /\ [][C10_Step]_vars

\* C10 witness: a Sequence has put the rest of its token back into the consumed head
C10_Witness ==
    /\ cpc = "decode" /\ shape = KickFields
    /\ Len(taken) = 3
    /\ head = Some(S_sasl)
    /\ stack # <<>> /\ Top.op = "seq"

====
